---- MODULE Spec2Model ----
(***************************************************************************)
(* Model of rnaseqlib/QualityControl.py (Python 2): the per-sample         *)
(* QualityControl record (load / compute / output lifecycle) and the       *)
(* QCStats aggregator.                                                     *)
(*                                                                         *)
(* Python values are modelled as records [ty, form, a, b]:                 *)
(*   ty   : the Python type ("int", "float", "str", "none")                *)
(*   form : the shape of the text / number                                 *)
(*   a, b : the numerals (a count, a pair l,r, or a reduced fraction a/b)  *)
(* so that "800" (a str read back from a file) differs from 800 (an int).  *)
(***************************************************************************)
EXTENDS Integers, Sequences, FiniteSets, TLC

\* ---------------------------------------------------------------- bounds
\* Largest total of the counts the collaborators (FASTQ, BAM and bedtools
\* counting) return for one sample, in the specification of the record's
\* life cycle (Spec, SpecRace, SpecAgg).
MaxTotal == 3
\* The same, in the specification of the computations alone (SpecStats).
MaxStatsTotal == 5
\* Largest number of samples handed to QCStats.
MaxSamples == 2

\* ---------------------------------------------------------------- values
\* self.na_val
na_val == [ty |-> "str", form |-> "na", a |-> 0, b |-> 1]

\* Python None (csv restval, QCStats.qc_stats before compile_qc)
None == [ty |-> "none", form |-> "none", a |-> 0, b |-> 1]

\* A Python int.
IntV(n) == [ty |-> "int", form |-> "num", a |-> n, b |-> 1]

RECURSIVE GCD(_, _)
GCD(x, y) == IF y = 0 THEN x ELSE GCD(y, x % y)

\* A Python float holding the (correctly rounded) quotient n/d, d > 0:
\* identified by the reduced fraction.
FloatV(n, d) ==
    LET g == GCD(n, d)
    IN  [ty |-> "float", form |-> "ratio", a |-> n \div g, b |-> d \div g]

\* The str "l,r" that get_num_reads returns for a paired-end sample.
PairStr(l, r) == [ty |-> "str", form |-> "pair", a |-> l, b |-> r]

\* The NaN pandas puts in a cell whose row lacks the column.
NaN == [ty |-> "float", form |-> "nan", a |-> 0, b |-> 1]

\* The empty str (a missing cell in a written table).
EmptyStr == [ty |-> "str", form |-> "empty", a |-> 0, b |-> 1]

\* Does the decimal expansion of 1/d terminate (d has only factors 2 and 5)?
RECURSIVE Strip(_, _)
Strip(d, p) == IF d % p = 0 THEN Strip(d \div p, p) ELSE d

Terminates(d) == Strip(Strip(d, 2), 5) = 1

\* What to_csv writes for a value and csv.DictReader reads back: always a
\* str.  An int n becomes "n", a float becomes its decimal text (a rounded
\* decimal when the expansion does not terminate), a str stays itself.
Render(v) ==
    IF v.ty = "none" \/ v.form = "nan" THEN EmptyStr
    ELSE IF v.ty = "float"
    THEN [ty |-> "str",
          form |-> IF Terminates(v.b) THEN "ratio" ELSE "rounded",
          a |-> v.a, b |-> v.b]
    ELSE [v EXCEPT !.ty = "str"]

\* ------------------------------------------------------------ exceptions
NoErr == "none"

\* Below, `CHOOSE y \in {F(x) : x \in {v}} : TRUE` stands for F(v): v is
\* bound through a singleton so that it is evaluated once.

\* Result of evaluating a Python expression: an exception name or a value,
\* and the dictionary as the evaluation left it.
Res(e, v, d) == [err |-> e, val |-> v, d |-> d]

\* Python 2 `x / y`: floor division on two ints, true division when a float
\* is involved, TypeError when either operand is a str.
Div(x, y) ==
    IF x.ty \notin {"int", "float"} \/ y.ty \notin {"int", "float"}
    THEN [err |-> "TypeError", val |-> None]
    ELSE IF y.a = 0
    THEN [err |-> "ZeroDivisionError", val |-> None]
    ELSE IF x.ty = "int" /\ y.ty = "int"
    THEN [err |-> NoErr, val |-> IntV((x.a * y.b) \div (x.b * y.a))]
    ELSE [err |-> NoErr, val |-> FloatV(x.a * y.b, x.b * y.a)]

\* Python float(x)
ToFloat(x) ==
    IF x.ty = "int" THEN [err |-> NoErr, val |-> FloatV(x.a, 1)]
    ELSE IF x.ty = "float" THEN [err |-> NoErr, val |-> x]
    ELSE IF x.ty = "str" /\ x.form = "num"
    THEN [err |-> NoErr, val |-> FloatV(x.a, 1)]
    ELSE IF x.ty = "str" /\ x.form \in {"ratio", "rounded"}
    THEN [err |-> NoErr, val |-> [x EXCEPT !.ty = "float"]]
    ELSE IF x.ty = "none" THEN [err |-> "TypeError", val |-> None]
    ELSE [err |-> "ValueError", val |-> None]

\* min(map(int, x.split(","))) of get_percent_mapped
PairDenom(x) ==
    IF x.ty # "str" THEN [err |-> "AttributeError", val |-> None]
    ELSE IF x.form = "pair"
    THEN [err |-> NoErr, val |-> IntV(IF x.a < x.b THEN x.a ELSE x.b)]
    ELSE IF x.form = "num" THEN [err |-> NoErr, val |-> IntV(x.a)]
    ELSE [err |-> "ValueError", val |-> None]

\* ------------------------------------------------- QualityControl header
regions_header ==
    <<"num_ribo", "num_exons", "num_cds", "num_introns", "num_3p_utr",
      "num_5p_utr">>

qc_stats_header ==
    <<"percent_mapped", "percent_ribo", "percent_exons", "percent_cds",
      "percent_introns">>

\* self.qc_header of __init__
default_qc_header ==
    <<"num_reads", "num_mapped", "num_unique_mapped">> \o qc_stats_header
        \o regions_header

\* The keys compute_qc_stats assigns, in its order (qc_stat_funcs).
qc_stat_names ==
    <<"percent_unique", "percent_mapped", "percent_ribo", "percent_exons",
      "percent_introns", "percent_cds">>

Range(s) == {s[i] : i \in DOMAIN s}

\* Every key the classes ever read or assign.
sample_header == "sample"

QCKeys == Range(default_qc_header) \cup Range(qc_stat_names)

AllKeys == QCKeys \cup {sample_header}

\* ---------------------------------------------------------- dictionaries
\* qc_results is [isdd, m]: isdd says whether it is the
\* defaultdict(lambda: na_val) of __init__ or the plain dict that
\* csv.DictReader returns; m maps every key to its value, or to Absent
\* when the dict does not hold the key.
Absent == [ty |-> "absent", form |-> "absent", a |-> 0, b |-> 1]

EmptyMap == [k \in AllKeys |-> Absent]

KeysOf(m) == {k \in AllKeys : m[k] # Absent}

EmptyDefaultDict == [isdd |-> TRUE, m |-> EmptyMap]

HasKey(d, k) == d.m[k] # Absent

Put(m, k, v) == [m EXCEPT ![k] = v]

\* d[k] = v
SetItem(d, k, v) == [d EXCEPT !.m = Put(d.m, k, v)]

\* d[k] as an expression: a defaultdict inserts and returns the default for
\* a key it lacks, a plain dict raises KeyError.
GetItem(d, k) ==
    IF HasKey(d, k) THEN Res(NoErr, d.m[k], d)
    ELSE IF d.isdd THEN Res(NoErr, na_val, SetItem(d, k, na_val))
    ELSE Res("KeyError", None, d)

\* ------------------------------------------------------- derived ratios
get_percent_mapped(d, paired) ==
    LET m == GetItem(d, "num_mapped") IN
    IF m.err # NoErr THEN m
    ELSE IF m.val = na_val THEN Res(NoErr, IntV(0), m.d)
    ELSE LET r == GetItem(m.d, "num_reads") IN
         IF r.err # NoErr THEN r
         ELSE IF paired
         THEN LET pd == PairDenom(r.val) IN
              IF pd.err # NoErr THEN Res(pd.err, None, r.d)
              ELSE LET q == Div(m.val, pd.val) IN Res(q.err, q.val, r.d)
         ELSE LET q == Div(m.val, r.val) IN Res(q.err, q.val, r.d)

get_percent_unique(d) ==
    LET u == GetItem(d, "num_unique_mapped") IN
    IF u.err # NoErr THEN u
    ELSE IF u.val = na_val THEN Res(NoErr, IntV(0), u.d)
    ELSE LET m == GetItem(u.d, "num_mapped") IN
         IF m.err # NoErr THEN m
         ELSE LET q == Div(u.val, m.val) IN Res(q.err, q.val, m.d)

\* Computes num_ribo / num_mapped and then returns the literal 0.
get_percent_ribo(d) ==
    LET n == GetItem(d, "num_ribo") IN
    IF n.err # NoErr THEN n
    ELSE IF n.val = na_val THEN Res(NoErr, IntV(0), n.d)
    ELSE LET m == GetItem(n.d, "num_mapped") IN
         IF m.err # NoErr THEN m
         ELSE LET q == Div(n.val, m.val) IN
              IF q.err # NoErr THEN Res(q.err, None, m.d)
              ELSE Res(NoErr, IntV(0), m.d)

\* Mutant of FloatRatio: an unavailable numerator is handed on as na_val.
FloatRatio_PropagateNA(d, key) ==
    LET n == GetItem(d, key) IN
    IF n.err # NoErr THEN n
    ELSE IF n.val = na_val THEN Res(NoErr, na_val, n.d)
    ELSE LET f == ToFloat(n.val) IN
         IF f.err # NoErr THEN Res(f.err, None, n.d)
         ELSE LET m == GetItem(n.d, "num_mapped") IN
              IF m.err # NoErr THEN m
              ELSE LET q == Div(f.val, m.val) IN Res(q.err, q.val, m.d)

\* float(qc_results[key]) / qc_results["num_mapped"], or 0 when the
\* numerator is na_val: the body shared by get_percent_exons,
\* get_percent_introns and get_percent_cds.
FloatRatio(d, key) ==
    LET n == GetItem(d, key) IN
    IF n.err # NoErr THEN n
    ELSE IF n.val = na_val THEN Res(NoErr, IntV(0), n.d)
    ELSE LET f == ToFloat(n.val) IN
         IF f.err # NoErr THEN Res(f.err, None, n.d)
         ELSE LET m == GetItem(n.d, "num_mapped") IN
              IF m.err # NoErr THEN m
              ELSE LET q == Div(f.val, m.val) IN Res(q.err, q.val, m.d)

get_percent_exons(d) == FloatRatio(d, "num_exons")

get_percent_introns(d) == FloatRatio(d, "num_introns")

get_percent_cds(d) == FloatRatio(d, "num_cds")

\* qc_stat_funcs: the function paired with each name.
StatFunc(name, d, paired) ==
    CASE name = "percent_unique" -> get_percent_unique(d)
      [] name = "percent_mapped" -> get_percent_mapped(d, paired)
      [] name = "percent_ribo" -> get_percent_ribo(d)
      [] name = "percent_exons" -> get_percent_exons(d)
      [] name = "percent_introns" -> get_percent_introns(d)
      [] name = "percent_cds" -> get_percent_cds(d)

\* for stat_name, stat_func in qc_stat_funcs: qc_results[stat_name] = ...
\* An exception leaves the assignments made so far.
RECURSIVE RunStatFuncs(_, _, _)
RunStatFuncs(names, d, paired) ==
    IF names = << >> THEN [err |-> NoErr, d |-> d]
    ELSE CHOOSE y \in
            {IF r.err # NoErr THEN [err |-> r.err, d |-> r.d]
             ELSE CHOOSE z \in
                     {RunStatFuncs(Tail(names), d2, paired) :
                         d2 \in {SetItem(r.d, Head(names), r.val)}} : TRUE :
                r \in {StatFunc(Head(names), d, paired)}} : TRUE

\* Mutant of MappedUnavailable: the check without its `== 0` half.
MappedUnavailable_NaOnly(v) == v = na_val

\* The check at the head of compute_qc_stats.
MappedUnavailable(v) == v = na_val \/ v = IntV(0)

\* compute_qc_stats: [err, d], err = "SystemExit" for sys.exit(1).
ComputeQcStats(d, paired) ==
    CHOOSE y \in
       {IF m.err # NoErr THEN [err |-> m.err, d |-> m.d]
        ELSE IF MappedUnavailable(m.val)
        THEN [err |-> "SystemExit", d |-> m.d]
        ELSE RunStatFuncs(qc_stat_names, m.d, paired) :
           m \in {GetItem(d, "num_mapped")}} : TRUE

\* ------------------------------------------------------------ the sample
\* What the external collaborators return for the sample's data files,
\* which do not change during a run: the FASTQ entry counts, the
\* non-duplicate read counts of the BAM files, the reads on chrRibo, and
\* the results of bedtools_utils.count_reads_matching_intervals (a count,
\* or None when the mapping failed).
Total(e) ==
    e.reads_l + e.reads_r + e.mapped + e.unique + e.ribo + e.exons.a
        + e.introns.a

\* The tuples of n counts that add up to at most t.
RECURSIVE CountTuples(_, _)
CountTuples(n, t) ==
    IF n = 0 THEN {<< >>}
    ELSE UNION {{<<k>> \o s : s \in CountTuples(n - 1, t - k)} :
                   k \in 0 .. t}

\* What count_reads_matching_intervals returned when n reads are counted:
\* the count, or (no read counted) its failure.
Overlap(n) == IF n = 0 THEN {IntV(0), None} ELSE {IntV(n)}

\* The samples whose counts add up to at most t.
Envs(t) ==
    UNION {[reads_l : {c[1]}, reads_r : {c[2]}, mapped : {c[3]},
            unique : {c[4]}, ribo : {c[5]}, exons : Overlap(c[6]),
            introns : Overlap(c[7])] : c \in CountTuples(7, t)}

\* A sample whose alignment is missing has no mapped or ribosomal reads
\* to count.
SampleOk(e, bam) == bam \/ (e.mapped = 0 /\ e.unique = 0 /\ e.ribo = 0)

\* A single-end sample has one FASTQ file.
ReadsOk(e, p) == p \/ e.reads_r = 0

SampleEnvs(t, p, bam) ==
    {e \in Envs(t) : SampleOk(e, bam) /\ ReadsOk(e, p)}

\* get_num_reads: an int, or "left,right" for a paired-end sample.
get_num_reads(e, paired) ==
    IF paired THEN PairStr(e.reads_l, e.reads_r) ELSE IntV(e.reads_l)

\* count_nondup_reads(filename): 0 with a warning when the file is missing.
count_nondup_reads(exists, n) == IF exists THEN IntV(n) ELSE IntV(0)

get_num_mapped(e, bam) == count_nondup_reads(bam, e.mapped)

\* The unique BAM is the alignment filtered to unique hits: it is there
\* when the alignment is.
get_num_unique_mapped(e, bam) == count_nondup_reads(bam, e.unique)

\* get_num_exons / get_num_introns: 0 when the mapping failed.
get_num_exons(e) == IF e.exons = None THEN IntV(0) ELSE e.exons

get_num_introns(e) == IF e.introns = None THEN IntV(0) ELSE e.introns

get_num_cds == IntV(0)

get_num_3p_utrs == IntV(0)

get_num_5p_utrs == IntV(0)

\* compute_basic_qc
ComputeBasicQc(d, e, paired, bam) ==
    SetItem(SetItem(SetItem(d, "num_reads", get_num_reads(e, paired)),
                    "num_mapped", get_num_mapped(e, bam)),
            "num_unique_mapped", get_num_unique_mapped(e, bam))

\* compute_regions: get_num_ribo opens the BAM file with pysam.Samfile,
\* which raises IOError when the file is missing, before any assignment.
ComputeRegions(d, e, bam) ==
    IF ~bam THEN [err |-> "IOError", d |-> d]
    ELSE [err |-> NoErr,
          d |-> SetItem(SetItem(SetItem(SetItem(SetItem(SetItem(d,
                    "num_ribo", IntV(e.ribo)),
                    "num_exons", get_num_exons(e)),
                    "num_cds", get_num_cds),
                    "num_introns", get_num_introns(e)),
                    "num_3p_utr", get_num_3p_utrs),
                    "num_5p_utr", get_num_5p_utrs)]

\* A QualityControl object: [qc_results, qc_header, qc_loaded].
Obj(d, h, l) == [qc_results |-> d, qc_header |-> h, qc_loaded |-> l]

BamWarning == "WARNING: Cannot find BAM filename"

\* Mutant of ComputeQc: the three passes run whether or not the BAM file
\* exists.
ComputeQc_NoBamCheck(o, e, paired, bam) ==
    CHOOSE y \in
       {IF r2.err # NoErr
        THEN [err |-> r2.err, o |-> [o EXCEPT !.qc_results = r2.d],
              msg |-> ""]
        ELSE CHOOSE z \in
                {[err |-> r3.err,
                  o |-> [o EXCEPT
                           !.qc_results = r3.d,
                           !.qc_loaded = IF r3.err = NoErr THEN TRUE ELSE @],
                  msg |-> ""] :
                    r3 \in {ComputeQcStats(r2.d, paired)}} : TRUE :
           r2 \in {ComputeRegions(
                      ComputeBasicQc(o.qc_results, e, paired, bam),
                      e, bam)}} : TRUE

\* compute_qc: [err, o, msg].  qc_loaded is set only when no exception
\* passes through.
ComputeQc(o, e, paired, bam) ==
    IF ~bam
    THEN [err |-> NoErr, o |-> [o EXCEPT !.qc_loaded = TRUE],
          msg |-> BamWarning]
    ELSE CHOOSE y \in
            {IF r2.err # NoErr
             THEN [err |-> r2.err, o |-> [o EXCEPT !.qc_results = r2.d],
                   msg |-> ""]
             ELSE CHOOSE z \in
                     {[err |-> r3.err,
                       o |-> [o EXCEPT
                                !.qc_results = r3.d,
                                !.qc_loaded = IF r3.err = NoErr
                                              THEN TRUE ELSE @],
                       msg |-> ""] :
                         r3 \in {ComputeQcStats(r2.d, paired)}} : TRUE :
                r2 \in {ComputeRegions(
                           ComputeBasicQc(o.qc_results, e, paired, bam),
                           e, bam)}} : TRUE

\* ------------------------------------------------------------- QC files
\* A tab-delimited file: a header and its data rows, each row a sequence
\* of str cells as long as the header.
NoFile == [exists |-> FALSE, header |-> << >>, rows |-> << >>]

File(h, rows) == [exists |-> TRUE, header |-> h, rows |-> rows]

\* The dict csv.DictReader makes of a row.
RowDict(h, row) ==
    [isdd |-> FALSE,
     m |-> [k \in AllKeys |->
              IF k \in Range(h) THEN row[CHOOSE i \in DOMAIN h : h[i] = k]
              ELSE Absent]]

\* load_qc_from_file: [err, o].  The header is adopted before the row is
\* read; qc_in.next() raises StopIteration when there is no data row.
LoadQcFromFile(o, f) ==
    IF ~f.exists THEN [err |-> NoErr, o |-> o]
    ELSE IF f.rows = << >>
    THEN [err |-> "StopIteration", o |-> [o EXCEPT !.qc_header = f.header]]
    ELSE [err |-> NoErr,
          o |-> Obj(RowDict(f.header, f.rows[1]), f.header, TRUE)]

\* __init__: a fresh record, then load_qc_from_file.
Construct(f) ==
    LoadQcFromFile(Obj(EmptyDefaultDict, default_qc_header, FALSE), f)

\* ------------------------------------------------------------- pandas
\* pandas.DataFrame(entries), entries a sequence of dicts: the columns are
\* the union of the keys, a cell whose dict lacks the column is NaN, and a
\* column of numbers that holds a float or a NaN is a float column (its
\* ints become floats).
NoTable == [none |-> TRUE, columns |-> {}, rows |-> << >>]

DataFrame(entries) ==
    LET cols == UNION {KeysOf(entries[i]) : i \in DOMAIN entries}
        floatCol(c) ==
            /\ \A i \in DOMAIN entries :
                  entries[i][c].ty \in {"int", "float", "absent"}
            /\ \E i \in DOMAIN entries :
                  entries[i][c].ty \in {"float", "absent"}
        cell(i, c) ==
            IF entries[i][c] = Absent THEN NaN
            ELSE IF entries[i][c].ty = "int" /\ floatCol(c)
            THEN FloatV(entries[i][c].a, 1)
            ELSE entries[i][c]
    IN  [none |-> FALSE, columns |-> cols,
         rows |-> [i \in DOMAIN entries |->
                     [c \in AllKeys |-> IF c \in cols THEN cell(i, c)
                                        ELSE Absent]]]

\* The data rows frame.to_csv(cols=h, index=False) writes when it writes
\* them all: NaN, and a column the frame lacks, become the empty na_rep.
CsvRows(t, h) ==
    [i \in DOMAIN t.rows |->
        [j \in DOMAIN h |-> IF h[j] \in t.columns
                            THEN Render(t.rows[i][h[j]])
                            ELSE EmptyStr]]

\* frame.to_csv(path, cols=h): the set of possible [err, file], f being
\* the file at path before the call.  When the frame lacks a column of h
\* the result depends on the pandas installed (setup.py asks for
\* pandas >= 0.8.1): the early versions that accept cols write the header
\* and then fail on, or never reach, the rows; the later ones select the
\* columns before they open the file and either raise or fill the cells.
ToCsv(t, h, f) ==
    IF Range(h) \subseteq t.columns
    THEN {[err |-> NoErr, file |-> File(h, CsvRows(t, h))]}
    ELSE {[err |-> "KeyError", file |-> f],
          [err |-> "KeyError", file |-> File(h, << >>)],
          [err |-> NoErr, file |-> File(h, << >>)],
          [err |-> NoErr, file |-> File(h, CsvRows(t, h))]}

\* ------------------------------------------------------------ output_qc
SkipMessage == "SKIPPING"

\* Mutant of OutputQc: no os.path.isfile check before writing.
OutputQc_Clobber(o, f) ==
    {[err |-> r.err, file |-> r.file, msg |-> ""] :
        r \in ToCsv(DataFrame(<<o.qc_results.m>>), o.qc_header, f)}

\* QualityControl.output_qc: the set of possible [err, file, msg].
OutputQc(o, f) ==
    IF f.exists THEN {[err |-> NoErr, file |-> f, msg |-> SkipMessage]}
    ELSE {[err |-> r.err, file |-> r.file, msg |-> ""] :
             r \in ToCsv(DataFrame(<<o.qc_results.m>>), o.qc_header, f)}

\* --------------------------------------------------------------- QCStats
\* sample.label of the i-th sample.
Label(i) == [ty |-> "str", form |-> "label", a |-> i, b |-> 1]

\* The qc_header QCStats is given: the order of QualityControl.__init__.
stats_qc_header == default_qc_header

EmptySamplesError == "Error: No samples given to compile QC from!"

\* Mutant of CompileQc: no check for an empty sample list.
CompileQc_NoEmptyCheck(objs, table) ==
    [err |-> NoErr,
     qc_stats |-> DataFrame([i \in DOMAIN objs |->
                               Put(objs[i].m, sample_header, Label(i))]),
     msg |-> ""]

\* compile_qc: [err, qc_stats, msg]; qc_objects[i] is the qc_results of
\* the i-th sample.
CompileQc(objs, table) ==
    IF Len(objs) = 0
    THEN [err |-> "SystemExit", qc_stats |-> table,
          msg |-> EmptySamplesError]
    ELSE [err |-> NoErr,
          qc_stats |-> DataFrame([i \in DOMAIN objs |->
                                    Put(objs[i].m, sample_header, Label(i))]),
          msg |-> ""]

ColumnWarning == "WARNING: Could not find column"

\* QCStats.to_csv: the set of possible [err, file, msg].
StatsToCsv(table, f) ==
    LET h == <<sample_header>> \o stats_qc_header IN
    IF table.none
    THEN {[err |-> "AttributeError", file |-> f, msg |-> ""]}
    ELSE {[err |-> r.err, file |-> r.file,
           msg |-> IF Range(h) \subseteq table.columns THEN ""
                   ELSE ColumnWarning] : r \in ToCsv(table, h, f)}

\* QCStats.output_qc calls self.compile_qc(self.samples), and compile_qc
\* takes no argument besides self: the call raises TypeError.
StatsOutputQc(objs, table, f) ==
    {[err |-> "TypeError", qc_stats |-> table, file |-> f, msg |-> ""]}

\* ---------------------------------------------------------------- state
VARIABLES
    paired,       \* sample.paired
    bam_exists,   \* os.path.isfile(sample.bam_filename)
    env,          \* what the collaborators return for the sample's data
    qc_file,      \* the file at self.qc_filename
    qc_results,   \* self.qc_results
    qc_header,    \* self.qc_header
    qc_loaded,    \* self.qc_loaded
    outcome,      \* how the last call ended: NoErr or the exception raised
    last,         \* the method called last
    msg,          \* the message the last call printed ("" for none)
    persisted,    \* the qc_results that output_qc wrote to qc_file
    qc_objects,   \* QCStats: the samples' qc_results, in sample order
    qc_stats,     \* QCStats.qc_stats
    report,       \* the combined report file
    pc,           \* concurrent output_qc: each process's position
    wrote         \* concurrent output_qc: the processes that wrote qc_file

sampleVars == <<paired, bam_exists, env>>

recordVars == <<qc_results, qc_header, qc_loaded>>

aggVars == <<qc_objects, qc_stats, report>>

raceVars == <<pc, wrote>>

vars ==
    <<paired, bam_exists, env, qc_file, qc_results, qc_header, qc_loaded,
      outcome, last, msg, persisted, qc_objects, qc_stats, report, pc,
      wrote>>

\* The running object.
Self == Obj(qc_results, qc_header, qc_loaded)

SetSelf(o) ==
    /\ qc_results' = o.qc_results
    /\ qc_header' = o.qc_header
    /\ qc_loaded' = o.qc_loaded

\* No uncaught exception has ended the process.
Alive == outcome = NoErr

Procs == {1, 2}

NoRecord == [isdd |-> FALSE, m |-> EmptyMap]

AggIdle ==
    /\ qc_objects = << >>
    /\ qc_stats = NoTable
    /\ report = NoFile

RaceIdle ==
    /\ pc = [p \in Procs |-> "idle"]
    /\ wrote = {}

\* The samples of the two scenarios of the specification's section 8: a
\* single-end sample, and a paired-end one (of which only the read counts
\* and num_mapped are given).
ScenarioSingle ==
    [reads_l |-> 1000, reads_r |-> 0, mapped |-> 800, unique |-> 760,
     ribo |-> 80, exons |-> IntV(600), introns |-> IntV(100)]

ScenarioPaired ==
    [reads_l |-> 1000, reads_r |-> 950, mapped |-> 900, unique |-> 0,
     ribo |-> 0, exons |-> IntV(0), introns |-> IntV(0)]

Scenarios(p, bam) ==
    IF ~bam THEN {} ELSE IF p THEN {ScenarioPaired} ELSE {ScenarioSingle}

\* The record the pipeline computes for a sample with no QC file:
\* __init__, then compute_qc.
FreshComputed(e, p, bam) ==
    ComputeQc(Construct(NoFile).o, e, p, bam)

\* The QC file output_qc writes for a record that has every column.
WrittenFile(d, h) == File(h, CsvRows(DataFrame(<<d.m>>), h))

RECURSIVE Without(_, _)
Without(h, k) ==
    IF h = << >> THEN << >>
    ELSE IF Head(h) = k THEN Without(Tail(h), k)
    ELSE <<Head(h)>> \o Without(Tail(h), k)

\* The state after QualityControl.__init__ for a sample that has no QC
\* file yet.
InitRecord ==
    /\ qc_file = NoFile
    /\ LET c == Construct(qc_file) IN
          /\ qc_results = c.o.qc_results
          /\ qc_header = c.o.qc_header
          /\ qc_loaded = c.o.qc_loaded
          /\ outcome = c.err
    /\ last = "__init__"
    /\ msg = ""
    /\ persisted = NoRecord

InitSample(t) ==
    /\ paired \in BOOLEAN
    /\ bam_exists \in BOOLEAN
    /\ env \in SampleEnvs(t, paired, bam_exists)
    /\ InitRecord

Init ==
    /\ InitSample(MaxTotal)
    /\ AggIdle
    /\ RaceIdle

\* ------------------------------------------------ QualityControl methods
\* A new run of the pipeline on the sample: QualityControl.__init__ on the
\* files the earlier runs left, which ends with load_qc_from_file.
QualityControlInit ==
    /\ LET c == Construct(qc_file) IN
          /\ SetSelf(c.o)
          /\ outcome' = c.err
    /\ last' = "__init__"
    /\ msg' = ""
    /\ UNCHANGED <<sampleVars, qc_file, persisted, aggVars, raceVars>>

compute_basic_qc ==
    /\ Alive
    /\ qc_results' = ComputeBasicQc(qc_results, env, paired, bam_exists)
    /\ last' = "compute_basic_qc"
    /\ msg' = ""
    /\ UNCHANGED <<sampleVars, qc_file, qc_header, qc_loaded, outcome,
                   persisted, aggVars, raceVars>>

compute_regions ==
    /\ Alive
    /\ LET r == ComputeRegions(qc_results, env, bam_exists) IN
          /\ qc_results' = r.d
          /\ outcome' = r.err
    /\ last' = "compute_regions"
    /\ msg' = ""
    /\ UNCHANGED <<sampleVars, qc_file, qc_header, qc_loaded, persisted,
                   aggVars, raceVars>>

compute_qc_stats ==
    /\ Alive
    /\ LET r == ComputeQcStats(qc_results, paired) IN
          /\ qc_results' = r.d
          /\ outcome' = r.err
    /\ last' = "compute_qc_stats"
    /\ msg' = ""
    /\ UNCHANGED <<sampleVars, qc_file, qc_header, qc_loaded, persisted,
                   aggVars, raceVars>>

compute_qc ==
    /\ Alive
    /\ LET r == ComputeQc(Self, env, paired, bam_exists) IN
          /\ SetSelf(r.o)
          /\ outcome' = r.err
          /\ msg' = r.msg
    /\ last' = "compute_qc"
    /\ UNCHANGED <<sampleVars, qc_file, persisted, aggVars, raceVars>>

output_qc ==
    /\ Alive
    /\ \E r \in OutputQc(Self, qc_file) :
          /\ qc_file' = r.file
          /\ outcome' = r.err
          /\ msg' = r.msg
          /\ persisted' = IF r.file # qc_file /\ r.file.rows # << >>
                          THEN qc_results ELSE persisted
    /\ last' = "output_qc"
    /\ UNCHANGED <<sampleVars, recordVars, aggVars, raceVars>>

Next ==
    \/ QualityControlInit
    \/ compute_basic_qc
    \/ compute_regions
    \/ compute_qc_stats
    \/ compute_qc
    \/ output_qc

\* The life cycle of one sample's record and its QC file.
Spec == Init /\ [][Next]_vars

\* ------------------------------------------------- the computations
InitStats ==
    /\ paired \in BOOLEAN
    /\ bam_exists \in BOOLEAN
    /\ env \in SampleEnvs(MaxStatsTotal, paired, bam_exists)
                \cup Scenarios(paired, bam_exists)
    /\ InitRecord
    /\ AggIdle
    /\ RaceIdle

NextStats ==
    \/ compute_basic_qc
    \/ compute_regions
    \/ compute_qc_stats
    \/ compute_qc

\* The computing methods of one record, over a wider range of counts.
SpecStats == InitStats /\ [][NextStats]_vars

\* ------------------------------------------- two concurrent output_qc
\* Two runs of the pipeline on the same sample, each with its own
\* QualityControl object holding the record compute_qc returned (the same
\* in both: the sample's data are the same), both about to call output_qc.
InitRace ==
    /\ paired \in BOOLEAN
    /\ bam_exists \in BOOLEAN
    /\ env \in SampleEnvs(MaxTotal, paired, bam_exists)
    /\ qc_file = NoFile
    /\ LET c == FreshComputed(env, paired, bam_exists) IN
          /\ c.err = NoErr
          /\ qc_results = c.o.qc_results
          /\ qc_header = c.o.qc_header
          /\ qc_loaded = c.o.qc_loaded
          /\ msg = c.msg
    /\ outcome = NoErr
    /\ last = "compute_qc"
    /\ persisted = NoRecord
    /\ AggIdle
    /\ pc = [p \in Procs |-> "output_qc"]
    /\ wrote = {}

\* output_qc, line 380: os.path.isfile(self.qc_filename)
CheckExists(p) ==
    /\ pc[p] = "output_qc"
    /\ pc' = [pc EXCEPT ![p] = IF qc_file.exists THEN "skipped"
                                ELSE "to_csv"]
    /\ msg' = IF qc_file.exists THEN SkipMessage ELSE msg
    /\ last' = "output_qc"
    /\ UNCHANGED <<sampleVars, qc_file, recordVars, outcome, persisted,
                   aggVars, wrote>>

\* output_qc, lines 385-390: to_csv opens qc_filename for writing, whatever
\* the file system holds by now.
WriteFile(p) ==
    /\ pc[p] = "to_csv"
    /\ \E r \in ToCsv(DataFrame(<<qc_results.m>>), qc_header, qc_file) :
          /\ qc_file' = r.file
          /\ pc' = [pc EXCEPT ![p] = IF r.err = NoErr THEN "written"
                                      ELSE r.err]
          /\ wrote' = IF r.err = "KeyError" /\ r.file = qc_file
                      THEN wrote ELSE wrote \cup {p}
          /\ persisted' = IF r.file.rows # << >> THEN qc_results
                          ELSE persisted
    /\ last' = "output_qc"
    /\ UNCHANGED <<sampleVars, recordVars, outcome, msg, aggVars>>

NextRace == \E p \in Procs : CheckExists(p) \/ WriteFile(p)

SpecRace == InitRace /\ [][NextRace]_vars

\* ---------------------------------------------------------- aggregation
\* The QC file an earlier release left for the sample: the record under a
\* header that has no num_cds column.
OldFile(d) == WrittenFile(d, Without(default_qc_header, "num_cds"))

\* The records the pipeline hands to QCStats for a sample: computed in this
\* run (or left at the sentinel, the alignment missing), or hydrated from
\* the file an earlier run or an earlier release wrote.
SampleRecords(e, p) ==
    CHOOSE y \in
       {{c, FreshComputed(e, p, FALSE).o.qc_results,
         Construct(WrittenFile(c, default_qc_header)).o.qc_results,
         Construct(OldFile(c)).o.qc_results} :
           c \in {FreshComputed(e, p, TRUE).o.qc_results}} : TRUE

AggRecords ==
    SampleRecords(ScenarioSingle, FALSE) \cup
        SampleRecords(ScenarioPaired, TRUE)

\* QCStats.__init__ on up to MaxSamples samples.
InitAgg ==
    /\ paired = FALSE
    /\ bam_exists = TRUE
    /\ env = ScenarioSingle
    /\ InitRecord
    /\ \E n \in 0 .. MaxSamples : qc_objects \in [1 .. n -> AggRecords]
    /\ qc_stats = NoTable
    /\ report = NoFile
    /\ RaceIdle

compile_qc ==
    /\ Alive
    /\ LET r == CompileQc(qc_objects, qc_stats) IN
          /\ qc_stats' = r.qc_stats
          /\ outcome' = r.err
          /\ msg' = r.msg
    /\ last' = "compile_qc"
    /\ UNCHANGED <<sampleVars, qc_file, recordVars, persisted, qc_objects,
                   report, raceVars>>

to_csv ==
    /\ Alive
    /\ \E r \in StatsToCsv(qc_stats, report) :
          /\ report' = r.file
          /\ outcome' = r.err
          /\ msg' = r.msg
    /\ last' = "to_csv"
    /\ UNCHANGED <<sampleVars, qc_file, recordVars, persisted, qc_objects,
                   qc_stats, raceVars>>

stats_output_qc ==
    /\ Alive
    /\ \E r \in StatsOutputQc(qc_objects, qc_stats, report) :
          /\ qc_stats' = r.qc_stats
          /\ report' = r.file
          /\ outcome' = r.err
          /\ msg' = r.msg
    /\ last' = "QCStats.output_qc"
    /\ UNCHANGED <<sampleVars, qc_file, recordVars, persisted, qc_objects,
                   raceVars>>

NextAgg ==
    \/ compile_qc
    \/ to_csv
    \/ stats_output_qc

SpecAgg == InitAgg /\ [][NextAgg]_vars

\* ================================================================ claims
\* What a lookup qc_results[k] yields in the current state.
Lookup(k) == GetItem(qc_results, k)

\* The lookup yields v.
Reads(k, v) == Lookup(k).err = NoErr /\ Lookup(k).val = v

\* v is a number equal to the quotient n / d.
IsQuotient(v, n, d) ==
    /\ v.ty \in {"int", "float"}
    /\ v.form \in {"num", "ratio"}
    /\ v.a * d = n * v.b

\* The entry of a count key is an int.
IsCount(k) == qc_results.m[k].ty = "int"

\* The record has an entry for every column of header h, so that writing
\* it does not depend on what the library does with a missing column.
HasEveryColumn(d, h) == \A k \in Range(h) : d.m[k] # Absent

StatsRan == last \in {"compute_qc_stats", "compute_qc"} /\ outcome = NoErr

\* The step is a call of compute_qc_stats, made directly or by compute_qc
\* (which first assigns the raw counts).
StatsStep ==
    \/ last' = "compute_qc_stats"
    \/ last' = "compute_qc" /\ bam_exists

\* num_mapped as compute_qc_stats finds it in that step: unavailable or 0.
MappedMissingAtStats ==
    \/ /\ last' = "compute_qc_stats"
       /\ Reads("num_mapped", na_val) \/ Reads("num_mapped", IntV(0))
    \/ /\ last' = "compute_qc"
       /\ bam_exists
       /\ env.mapped = 0

\* C1: when compute_qc_stats is reached with num_mapped "NA" or the int 0,
\* the call ends in sys.exit and writes no derived ratio into the record.
C1_FatalWithoutMapped ==
    [][(Alive /\ StatsStep /\ MappedMissingAtStats)
          => /\ outcome' = "SystemExit"
             /\ \A k \in Range(qc_stat_names) :
                   qc_results'.m[k] = qc_results.m[k]]_vars

C1_Witness ==
    /\ last = "compute_qc_stats"
    /\ outcome = "SystemExit"
    /\ qc_results.m["num_mapped"] = IntV(0)
    /\ \A k \in Range(qc_stat_names) : qc_results.m[k] = Absent

\* C2: once the sample's QC file exists, no call changes its content: a
\* later output_qc skips the write.
C2_NeverOverwrites == [][qc_file.exists => qc_file' = qc_file]_vars

C2_Witness ==
    /\ last = "output_qc"
    /\ msg = SkipMessage
    /\ persisted # NoRecord
    /\ qc_file.exists
    /\ qc_results # persisted

\* C3: of two processes that run output_qc for the same sample (whose
\* record has every column), at most one writes the sample's QC file.
C3_AtMostOneWriter ==
    HasEveryColumn(qc_results, qc_header) => Cardinality(wrote) <= 1

\* The derived ratios that have a region count as numerator.
RegionRatio(k) ==
    CASE k = "num_ribo" -> get_percent_ribo(qc_results)
      [] k = "num_exons" -> get_percent_exons(qc_results)
      [] k = "num_introns" -> get_percent_introns(qc_results)
      [] k = "num_cds" -> get_percent_cds(qc_results)

RatioKey(k) ==
    CASE k = "num_ribo" -> "percent_ribo"
      [] k = "num_exons" -> "percent_exons"
      [] k = "num_introns" -> "percent_introns"
      [] k = "num_cds" -> "percent_cds"

RegionNumerators == {"num_ribo", "num_exons", "num_introns", "num_cds"}

\* C4: when the numerator of percent_ribo, percent_exons, percent_introns
\* or percent_cds reads "NA", the ratio's function returns 0 without
\* raising, and a compute_qc_stats that returned has stored that 0.
C4_UnavailableNumeratorGivesZero ==
    \A k \in RegionNumerators :
       Reads(k, na_val)
          => /\ RegionRatio(k).err = NoErr
             /\ RegionRatio(k).val = IntV(0)
             /\ (last = "compute_qc_stats" /\ outcome = NoErr)
                   => qc_results.m[RatioKey(k)] = IntV(0)

C4_Witness ==
    /\ last = "compute_qc_stats"
    /\ outcome = NoErr
    /\ qc_results.m["num_mapped"].ty = "int"
    /\ qc_results.m["num_mapped"].a > 0
    /\ \A k \in RegionNumerators :
          /\ qc_results.m[k] = na_val
          /\ qc_results.m[RatioKey(k)] = IntV(0)

\* The record holds int counts computed in this run and compute_qc_stats
\* has returned on it.
StatsOnCounts ==
    /\ StatsRan
    /\ qc_results.isdd
    /\ IsCount("num_mapped")
    /\ IsCount("num_unique_mapped")
    /\ qc_results.m["num_mapped"].a > 0

\* C5: for a single-end sample with int counts and num_mapped > 0,
\* compute_qc_stats sets percent_mapped to num_mapped / num_reads,
\* percent_unique to num_unique_mapped / num_mapped, and percent_exons,
\* percent_introns, percent_cds to their count / num_mapped, as exact
\* quotients.
C5_SingleEndQuotients ==
    (~paired /\ StatsOnCounts /\ IsCount("num_reads")
       /\ IsCount("num_exons") /\ IsCount("num_introns")
       /\ IsCount("num_cds"))
      => LET m == qc_results.m IN
         /\ IsQuotient(m["percent_mapped"], m["num_mapped"].a,
                       m["num_reads"].a)
         /\ IsQuotient(m["percent_unique"], m["num_unique_mapped"].a,
                       m["num_mapped"].a)
         /\ IsQuotient(m["percent_exons"], m["num_exons"].a,
                       m["num_mapped"].a)
         /\ IsQuotient(m["percent_introns"], m["num_introns"].a,
                       m["num_mapped"].a)
         /\ IsQuotient(m["percent_cds"], m["num_cds"].a, m["num_mapped"].a)

\* C6: for a paired-end sample, percent_mapped is the exact quotient
\* num_mapped / min(left, right) of the two mate counts in num_reads.
C6_PairedMappedQuotient ==
    (paired /\ StatsOnCounts /\ qc_results.m["num_reads"].form = "pair")
      => LET m == qc_results.m
             l == m["num_reads"].a
             r == m["num_reads"].b
         IN  IsQuotient(m["percent_mapped"], m["num_mapped"].a,
                        IF l < r THEN l ELSE r)

\* C7: when num_ribo is a count and num_mapped > 0, compute_qc_stats sets
\* percent_ribo to num_ribo / num_mapped.
C7_RiboQuotient ==
    (StatsOnCounts /\ IsCount("num_ribo"))
      => IsQuotient(qc_results.m["percent_ribo"], qc_results.m["num_ribo"].a,
                    qc_results.m["num_mapped"].a)

\* The record has just been hydrated, by a new QualityControl object, from
\* the file output_qc wrote for a record on which compute_qc_stats had
\* returned.
HydratedFromComputed ==
    /\ last = "__init__"
    /\ Alive
    /\ qc_loaded
    /\ ~qc_results.isdd
    /\ \A k \in Range(qc_stat_names) : persisted.m[k] # Absent
    /\ HasEveryColumn(persisted, qc_file.header)
    /\ qc_file = WrittenFile(persisted, qc_file.header)

\* C8: compute_qc_stats on a record hydrated from the persisted file of a
\* computed record returns, and leaves the derived ratios that were
\* computed before the record was persisted.
C8_RoundTrip ==
    [][(HydratedFromComputed /\ last' = "compute_qc_stats")
          => /\ outcome' = NoErr
             /\ \A k \in Range(qc_stat_names) :
                   qc_results'.m[k] = persisted.m[k]]_vars

\* C9: in every state of a live record (fresh, or hydrated from a file
\* that was written with every column), the lookup of any QC key yields a
\* value (the sentinel "NA" for a key not yet computed) and never fails.
C9_LookupNeverFails ==
    (Alive /\ (persisted = NoRecord
                  \/ HasEveryColumn(persisted, qc_file.header)))
      => \A k \in QCKeys : Lookup(k).err = NoErr

\* C10: compile_qc on an empty sample sequence ends in sys.exit, leaves no
\* table in qc_stats, and no report file is written.
C10_EmptySampleSetFails ==
    (last = "compile_qc" /\ Len(qc_objects) = 0)
      => /\ outcome = "SystemExit"
         /\ qc_stats = NoTable
         /\ report = NoFile

C10_Witness ==
    /\ last = "compile_qc"
    /\ Len(qc_objects) = 0
    /\ outcome = "SystemExit"
    /\ msg = EmptySamplesError

\* The cell of column k in row i of the report.
ReportCell(i, k) ==
    report.rows[i][CHOOSE j \in DOMAIN report.header : report.header[j] = k]

\* Sample i's record has every column of the report's header; sample i's
\* record was hydrated from a file that had no num_cds column.
FullKeySet(i) == HasEveryColumn(qc_objects[i], stats_qc_header)

LacksNumCds(i) ==
    /\ ~qc_objects[i].isdd
    /\ qc_objects[i].m["num_cds"] = Absent
    /\ HasEveryColumn(qc_objects[i], Without(stats_qc_header, "num_cds"))

\* C11: when a sample with the full key set and a sample hydrated from an
\* older file without num_cds are compiled and the report is written, the
\* write succeeds, the report has a num_cds column, and the row of the
\* sample without the key holds "NA" in it.
C11_MissingKeyReadsNA ==
    (/\ last = "to_csv"
     /\ qc_stats # NoTable
     /\ \E i \in DOMAIN qc_objects : FullKeySet(i)
     /\ \E i \in DOMAIN qc_objects : LacksNumCds(i))
      => /\ outcome = NoErr
         /\ report.exists
         /\ "num_cds" \in Range(report.header)
         /\ Len(report.rows) = Len(qc_objects)
         /\ \A i \in DOMAIN qc_objects :
               LacksNumCds(i) => ReportCell(i, "num_cds") = na_val

\* The column order the specification calls canonical: raw counts, region
\* counts, derived ratios.
CanonicalHeader ==
    <<"num_reads", "num_mapped", "num_unique_mapped",
      "num_ribo", "num_exons", "num_cds", "num_introns", "num_3p_utr",
      "num_5p_utr",
      "percent_mapped", "percent_unique", "percent_ribo", "percent_exons",
      "percent_introns", "percent_cds">>

\* output_qc has written the sample's QC file, from a record that had
\* every column of its header.
FileWritten ==
    /\ qc_file.exists
    /\ persisted # NoRecord
    /\ HasEveryColumn(persisted, qc_file.header)
    /\ qc_file = WrittenFile(persisted, qc_file.header)

\* C12: the file output_qc writes has the canonical header, one column per
\* key, and a column for every key compute_qc_stats sets.
C12_CanonicalHeader ==
    FileWritten
      => /\ qc_file.header = CanonicalHeader
         /\ Range(qc_stat_names) \subseteq Range(qc_file.header)

\* C13: QCStats.output_qc on a non-empty sample sequence returns, having
\* compiled one row per sample, in sample order and tagged with its label,
\* and having written the report with one row per sample.
C13_OutputCompilesThenWrites ==
    (last = "QCStats.output_qc" /\ Len(qc_objects) > 0)
      => /\ outcome = NoErr
         /\ qc_stats # NoTable
         /\ Len(qc_stats.rows) = Len(qc_objects)
         /\ \A i \in DOMAIN qc_objects :
               qc_stats.rows[i][sample_header] = Label(i)
         /\ report.exists
         /\ Len(report.rows) = Len(qc_objects)

\* C14: compute_qc on a sample whose BAM file exists assigns the raw
\* counts, then the region counts, then the derived ratios computed from
\* them; on a sample whose BAM file is missing it changes no entry of the
\* record, raises nothing, warns, and sets qc_loaded (every key of a fresh
\* record still reads "NA").
C14_ComputeQcOrder ==
    [][(Alive /\ last' = "compute_qc")
          => IF bam_exists
             THEN LET m == qc_results'.m IN
                  /\ m["num_reads"] = get_num_reads(env, paired)
                  /\ m["num_mapped"] = IntV(env.mapped)
                  /\ m["num_unique_mapped"] = IntV(env.unique)
                  /\ m["num_ribo"] = IntV(env.ribo)
                  /\ m["num_exons"] = get_num_exons(env)
                  /\ m["num_introns"] = get_num_introns(env)
                  /\ env.mapped = 0 => outcome' = "SystemExit"
                  /\ outcome' = NoErr
                        => /\ qc_loaded'
                           /\ IsQuotient(m["percent_exons"],
                                         get_num_exons(env).a, env.mapped)
                           /\ IsQuotient(m["percent_introns"],
                                         get_num_introns(env).a, env.mapped)
             ELSE /\ outcome' = NoErr
                  /\ msg' = BamWarning
                  /\ qc_results' = qc_results
                  /\ qc_loaded'
                  /\ qc_results = EmptyDefaultDict
                        => \A k \in QCKeys :
                              /\ GetItem(qc_results', k).err = NoErr
                              /\ GetItem(qc_results', k).val = na_val]_vars

C14_Witness ==
    /\ last = "compute_qc"
    /\ ~bam_exists
    /\ outcome = NoErr
    /\ msg = BamWarning
    /\ qc_loaded
    /\ qc_results = EmptyDefaultDict

\* C15: load_qc_from_file (run by __init__) on an existing QC file that has
\* a header and no data row raises nothing and leaves every key reading
\* "NA".
C15_HeaderOnlyFileLoads ==
    (last = "__init__" /\ qc_file.exists /\ qc_file.rows = << >>)
      => /\ outcome = NoErr
         /\ \A k \in QCKeys : Reads(k, na_val)

\* C16: a compute_qc_stats whose record passes the mapped-reads check
\* (num_mapped is a count > 0) never ends in a division by zero, whatever
\* the other raw counts are.
C16_NoDivisionByZero ==
    (/\ last \in {"compute_qc_stats", "compute_qc"}
     /\ IsCount("num_mapped")
     /\ qc_results.m["num_mapped"].a > 0)
      => outcome # "ZeroDivisionError"

====
